---- MODULE Spec2Model ----
(***************************************************************************)
(* Content-mutation and query-preprocessing engine of the Trilium MCP      *)
(* server: applySearchReplace / resolveContent (tools/diff),               *)
(* preprocessSearchQuery (tools/queryPreprocessor) and the                 *)
(* update_note_content / append_note_content handlers (tools/notes).       *)
(*                                                                         *)
(* A JavaScript string is a sequence of one-character strings; indices of  *)
(* the JS operators (indexOf, slice) are 0-based as in the source.         *)
(***************************************************************************)
EXTENDS Integers, Sequences, FiniteSets, TLC

VARIABLES
    srContent,   \* applySearchReplace: the `content` argument
    srChanges,   \* applySearchReplace: the `changes` argument
    srOutcome,   \* applySearchReplace: pending, or what the call returned / threw
    query,       \* preprocessSearchQuery: the `query` argument
    qOutcome,    \* preprocessSearchQuery: pending, or the string returned
    store,       \* the remote store: the content of the note
    calls,       \* handleNoteTool: the calls in progress, by caller
    resolveCall, \* resolveContent: its arguments and pending / returned / threw
    patchCall,   \* applyUnifiedDiff: its arguments and what each call returned / threw
    verifyCall   \* verifySearchReplaceResults: its arguments and pending / returned / threw

srVars == <<srContent, srChanges, srOutcome>>

qVars == <<query, qOutcome>>

hVars == <<store, calls>>

dVars == <<resolveCall, patchCall, verifyCall>>

vars == <<srVars, qVars, hVars, dVars>>

----------------------------------------------------------------------------
(* Bounds of the model *)

\* characters strings are made of
Alphabet == {"a", "b"}

\* longest `content` handed to applySearchReplace
MaxContentLen == 3
\* longest `changes` array
MaxChanges == 2
\* most characters in all old_string / new_string of one `changes` array
MaxChangeChars == 3
\* most pieces (words, blanks, operators, quotes) a query is put together from
MaxPieces == 4
\* longest content of the note before a handler call
MaxStoreLen == 2
\* longest `content` of a handler request
MaxRequestContentLen == 1
\* longest `changes` array of a handler request
MaxRequestChanges == 2
\* most characters in all old_string / new_string of a handler request
MaxRequestChangeChars == 2
\* how far below and above an echo limit the lengths of the long strings reach
EchoSlack == 2
\* most lines of a content handed to applyUnifiedDiff, and the highest oldStart
MaxPatchLines == 2
\* most hunks of a patch
MaxHunks == 2
\* most hunk lines in all hunks of a patch
MaxHunkLines == 2

----------------------------------------------------------------------------
(* JavaScript string primitives *)

Min(a, b) == IF a < b THEN a ELSE b

Max(a, b) == IF a > b THEN a ELSE b

\* String.prototype.slice(a, b) for non-negative a, b (clamped to the length)
Slice(s, a, b) == SubSeq(s, Min(Max(a, 0), Len(s)) + 1, Min(Max(b, 0), Len(s)))

\* String.prototype.slice(a)
SliceFrom(s, a) == Slice(s, a, Len(s))

\* does `sub` occur in `s` starting at 0-based index i
MatchesAt(s, sub, i) ==
    /\ i >= 0
    /\ i + Len(sub) <= Len(s)
    /\ SubSeq(s, i + 1, i + Len(sub)) = sub

\* String.prototype.indexOf(sub, from): lowest index >= from where sub occurs, or -1
\* (the empty string is found at min(from, length))
IndexOf(s, sub, from) ==
    LET hits == {i \in Max(from, 0)..(Len(s) - Len(sub)) : MatchesAt(s, sub, i)}
    IN  IF sub = <<>> THEN Min(Max(from, 0), Len(s))
        ELSE IF hits = {} THEN -1
        ELSE CHOOSE i \in hits : \A j \in hits : i <= j

----------------------------------------------------------------------------
(* tools/diff: DiffApplicationError and applySearchReplace *)

\* the longest search string echoed whole in an error message
SearchEchoMax == 100

Ellipsis == <<".", ".", ".">>

\* an echo that already cuts a search string of exactly 100 characters
EchoSearch_CutsAtLimit(old_string) ==
    IF Len(old_string) >= SearchEchoMax
    THEN Slice(old_string, 0, SearchEchoMax) \o Ellipsis
    ELSE old_string

\* old_string.length > 100 ? old_string.slice(0, 100) + '...' : old_string
EchoSearch(old_string) ==
    IF Len(old_string) > SearchEchoMax
    THEN Slice(old_string, 0, SearchEchoMax) \o Ellipsis
    ELSE old_string

\* a returned string
Returned(s) == [tag |-> "ok", value |-> s]

\* a thrown DiffApplicationError: `kind` stands for the fixed text of the message
\* ("NotFound": "...could not find the search string in content.",
\*  "Ambiguous": "...the search string is ambiguous (appears multiple times ...)"),
\* `shown` for the string the message quotes
Thrown(kind, shown) == [tag |-> "error", kind |-> kind, shown |-> shown]

Pending == [tag |-> "pending"]

\* faulty variant of ApplyChange: the suffix is taken from firstIndex + 1
\* instead of firstIndex + old_string.length
ApplyChange_SuffixOffByOne(result, change) ==
    LET old_string == change.old_string
        new_string == change.new_string
        firstIndex == IndexOf(result, old_string, 0)
        secondIndex == IndexOf(result, old_string, firstIndex + 1)
    IN  IF old_string = <<>> THEN Returned(new_string \o result)
        ELSE IF firstIndex = -1 THEN Thrown("NotFound", EchoSearch(old_string))
        ELSE IF secondIndex # -1 THEN Thrown("Ambiguous", EchoSearch(old_string))
        ELSE Returned(Slice(result, 0, firstIndex) \o new_string
                        \o SliceFrom(result, firstIndex + 1))

\* faulty variant of ApplyChange: the second occurrence is looked for after the
\* end of the first one, so an overlapping occurrence goes unnoticed
ApplyChange_SecondAfterMatch(result, change) ==
    LET old_string == change.old_string
        new_string == change.new_string
        firstIndex == IndexOf(result, old_string, 0)
        secondIndex == IndexOf(result, old_string, firstIndex + Len(old_string))
    IN  IF old_string = <<>> THEN Returned(new_string \o result)
        ELSE IF firstIndex = -1 THEN Thrown("NotFound", EchoSearch(old_string))
        ELSE IF secondIndex # -1 THEN Thrown("Ambiguous", EchoSearch(old_string))
        ELSE Returned(Slice(result, 0, firstIndex) \o new_string
                        \o SliceFrom(result, firstIndex + Len(old_string)))

\* faulty variant of ApplyChange: a search string that is not found is skipped
ApplyChange_SkipNotFound(result, change) ==
    LET old_string == change.old_string
        new_string == change.new_string
        firstIndex == IndexOf(result, old_string, 0)
        secondIndex == IndexOf(result, old_string, firstIndex + 1)
    IN  IF old_string = <<>> THEN Returned(new_string \o result)
        ELSE IF firstIndex = -1 THEN Returned(result)
        ELSE IF secondIndex # -1 THEN Thrown("Ambiguous", EchoSearch(old_string))
        ELSE Returned(Slice(result, 0, firstIndex) \o new_string
                        \o SliceFrom(result, firstIndex + Len(old_string)))

\* faulty variant of ApplyChange: an empty old_string appends instead of prepending
ApplyChange_EmptyAppends(result, change) ==
    LET old_string == change.old_string
        new_string == change.new_string
        firstIndex == IndexOf(result, old_string, 0)
        secondIndex == IndexOf(result, old_string, firstIndex + 1)
    IN  IF old_string = <<>> THEN Returned(result \o new_string)
        ELSE IF firstIndex = -1 THEN Thrown("NotFound", EchoSearch(old_string))
        ELSE IF secondIndex # -1 THEN Thrown("Ambiguous", EchoSearch(old_string))
        ELSE Returned(Slice(result, 0, firstIndex) \o new_string
                        \o SliceFrom(result, firstIndex + Len(old_string)))

\* one iteration of the loop of applySearchReplace on the running `result`
ApplyChange(result, change) ==
    LET old_string == change.old_string
        new_string == change.new_string
        firstIndex == IndexOf(result, old_string, 0)
        secondIndex == IndexOf(result, old_string, firstIndex + 1)
    IN  IF old_string = <<>> THEN Returned(new_string \o result)
        ELSE IF firstIndex = -1 THEN Thrown("NotFound", EchoSearch(old_string))
        ELSE IF secondIndex # -1 THEN Thrown("Ambiguous", EchoSearch(old_string))
        ELSE Returned(Slice(result, 0, firstIndex) \o new_string
                        \o SliceFrom(result, firstIndex + Len(old_string)))

RECURSIVE ApplyChangesFrom(_, _)
\* the loop of applySearchReplace: the changes still to apply to `result`
ApplyChangesFrom(result, changes) ==
    IF changes = <<>> THEN Returned(result)
    ELSE LET step == ApplyChange(result, Head(changes))
         IN  IF step.tag = "ok" THEN ApplyChangesFrom(step.value, Tail(changes))
             ELSE step

RECURSIVE LocateInOriginalFrom(_, _, _)
\* faulty loop: every search string is looked up in the original `content`
\* (not found / ambiguous decided there), the replacement made in `result`
LocateInOriginalFrom(content, result, changes) ==
    IF changes = <<>> THEN Returned(result)
    ELSE LET probe == ApplyChange(content, Head(changes))
             step == ApplyChange(result, Head(changes))
         IN  IF probe.tag # "ok" THEN probe
             ELSE IF step.tag # "ok" THEN step
             ELSE LocateInOriginalFrom(content, step.value, Tail(changes))

\* faulty variant of applySearchReplace built on that loop
applySearchReplace_LocateInOriginal(content, changes) ==
    LocateInOriginalFrom(content, content, changes)

applySearchReplace(content, changes) == ApplyChangesFrom(content, changes)

----------------------------------------------------------------------------
(* tools/queryPreprocessor *)

\* what the regular expression's \s matches, among the characters modelled
Whitespace == {" ", "\t", "\n"}

\* what the regular expression's . does not match
LineTerminators == {"\n"}

\* "(?:[^"\\]|\\.)*" continued at index i, the opening quote already matched:
\* the index after the closing quote, or -1 when the alternative cannot match
RECURSIVE QuotedEnd(_, _)
QuotedEnd(q, i) ==
    IF i >= Len(q) THEN -1
    ELSE IF q[i + 1] = "\"" THEN i + 1
    ELSE IF q[i + 1] = "\\"
         THEN IF i + 1 < Len(q) /\ q[i + 2] \notin LineTerminators
              THEN QuotedEnd(q, i + 2)
              ELSE -1
    ELSE QuotedEnd(q, i + 1)

\* \S+ from index i: the index after the run of non-whitespace characters
RECURSIVE NonSpaceEnd(_, _)
NonSpaceEnd(q, i) ==
    IF i >= Len(q) \/ q[i + 1] \in Whitespace THEN i
    ELSE NonSpaceEnd(q, i + 1)

\* a tokenizer without the fallback to /\S+/ at a quote that is never closed
MatchEnd_QuoteMustClose(q, i) ==
    IF q[i + 1] = "\"" THEN QuotedEnd(q, i + 1) ELSE NonSpaceEnd(q, i)

\* a tokenizer that knows no quoted phrases: /\S+/ alone
MatchEnd_NoQuotedPhrase(q, i) == NonSpaceEnd(q, i)

\* the end of the match of /"(?:[^"\\]|\\.)*"|\S+/ at index i (q[i] not whitespace)
MatchEnd(q, i) ==
    LET quoted == IF q[i + 1] = "\"" THEN QuotedEnd(q, i + 1) ELSE -1
    IN  IF quoted # -1 THEN quoted ELSE NonSpaceEnd(q, i)

\* the loop of tokenize: regex.exec from lastIndex = i
RECURSIVE TokenizeFrom(_, _)
TokenizeFrom(q, i) ==
    IF i >= Len(q) THEN <<>>
    ELSE IF q[i + 1] \in Whitespace THEN TokenizeFrom(q, i + 1)
    ELSE <<Slice(q, i, MatchEnd(q, i))>> \o TokenizeFrom(q, MatchEnd(q, i))

tokenize(q) == TokenizeFrom(q, 0)

\* String.prototype.toLowerCase on one character
LowerChar(c) ==
    CASE c = "O" -> "o"
      [] c = "R" -> "r"
      [] OTHER -> c

ToLowerCase(s) == [i \in 1..Len(s) |-> LowerChar(s[i])]

isOrOperator(token) == ToLowerCase(token) = <<"o", "r">>

\* String.prototype.startsWith
StartsWith(s, prefix) == MatchesAt(s, prefix, 0)

\* /[=!<>]/.test(token)
HasOperatorChar(token) == \E i \in 1..Len(token) : token[i] \in {"=", "!", "<", ">"}

\* the callback of tokens.every in isBareFulltextSegment
IsPlainToken(token) ==
    IF StartsWith(token, <<"#">>) \/ StartsWith(token, <<"~">>) THEN FALSE
    ELSE IF StartsWith(token, <<"n", "o", "t", "e", ".">>) THEN FALSE
    ELSE IF StartsWith(token, <<"n", "o", "t", "(">>) THEN FALSE
    ELSE IF HasOperatorChar(token) THEN FALSE
    ELSE IF StartsWith(token, <<"(">>) \/ StartsWith(token, <<")">>) THEN FALSE
    ELSE TRUE

isBareFulltextSegment(tokens) == \A i \in 1..Len(tokens) : IsPlainToken(tokens[i])

\* Array.prototype.join
RECURSIVE Join(_, _)
Join(strs, sep) ==
    IF strs = <<>> THEN <<>>
    ELSE IF Len(strs) = 1 THEN strs[1]
    ELSE strs[1] \o sep \o Join(Tail(strs), sep)

\* "note.content *=* "
ContentContains ==
    <<"n", "o", "t", "e", ".", "c", "o", "n", "t", "e", "n", "t", " ", "*", "=", "*", " ">>

\* " AND "
AndSep == <<" ", "A", "N", "D", " ">>

\* " OR "
OrSep == <<" ", "O", "R", " ">>

\* " "
Blank == <<" ">>

\* faulty variant of wrapFulltextSegment: no parentheses around several terms
wrapFulltextSegment_NoParens(tokens) ==
    IF Len(tokens) = 1 THEN ContentContains \o tokens[1]
    ELSE Join([i \in 1..Len(tokens) |-> ContentContains \o tokens[i]], AndSep)

wrapFulltextSegment(tokens) ==
    IF Len(tokens) = 1 THEN ContentContains \o tokens[1]
    ELSE <<"(">>
            \o Join([i \in 1..Len(tokens) |-> ContentContains \o tokens[i]], AndSep)
            \o <<")">>

RECURSIVE SplitSegments_PushesEmpty(_, _, _)
\* faulty variant of SplitSegments: the tokens collected so far are pushed at every
\* OR and at the end, even when there are none
SplitSegments_PushesEmpty(tokens, segments, current) ==
    IF tokens = <<>>
    THEN Append(segments, current)
    ELSE IF isOrOperator(Head(tokens))
         THEN SplitSegments_PushesEmpty(Tail(tokens), Append(segments, current), <<>>)
    ELSE SplitSegments_PushesEmpty(Tail(tokens), segments, Append(current, Head(tokens)))

RECURSIVE SplitSegments(_, _, _)
\* the loop of preprocessSearchQuery that splits the tokens at the OR operators
SplitSegments(tokens, segments, current) ==
    IF tokens = <<>>
    THEN IF Len(current) > 0 THEN Append(segments, current) ELSE segments
    ELSE IF isOrOperator(Head(tokens))
         THEN IF Len(current) > 0
              THEN SplitSegments(Tail(tokens), Append(segments, current), <<>>)
              ELSE SplitSegments(Tail(tokens), segments, current)
    ELSE SplitSegments(Tail(tokens), segments, Append(current, Head(tokens)))

\* segments.map(...) of preprocessSearchQuery
RewriteSegment(seg) ==
    IF isBareFulltextSegment(seg) THEN wrapFulltextSegment(seg) ELSE Join(seg, Blank)

\* faulty variant of preprocessSearchQuery: a query without OR is returned as its
\* tokens joined by single blanks
preprocessSearchQuery_RejoinsTokens(q) ==
    LET tokens == tokenize(q)
        segments == SplitSegments(tokens, <<>>, <<>>)
        hasBareFulltext == \E i \in 1..Len(segments) : isBareFulltextSegment(segments[i])
        rewritten == [i \in 1..Len(segments) |-> RewriteSegment(segments[i])]
    IN  IF Len(tokens) = 0 THEN q
        ELSE IF Len(segments) <= 1 THEN Join(tokens, Blank)
        ELSE IF ~hasBareFulltext THEN q
        ELSE Join(rewritten, OrSep)

\* faulty variant of preprocessSearchQuery: no early return when no segment is bare
preprocessSearchQuery_AlwaysRewrites(q) ==
    LET tokens == tokenize(q)
        segments == SplitSegments(tokens, <<>>, <<>>)
        rewritten == [i \in 1..Len(segments) |-> RewriteSegment(segments[i])]
    IN  IF Len(tokens) = 0 THEN q
        ELSE IF Len(segments) <= 1 THEN q
        ELSE Join(rewritten, OrSep)

\* faulty variant of preprocessSearchQuery: every segment is wrapped, structured or not
preprocessSearchQuery_WrapsAll(q) ==
    LET tokens == tokenize(q)
        segments == SplitSegments(tokens, <<>>, <<>>)
        hasBareFulltext == \E i \in 1..Len(segments) : isBareFulltextSegment(segments[i])
        rewritten == [i \in 1..Len(segments) |-> wrapFulltextSegment(segments[i])]
    IN  IF Len(tokens) = 0 THEN q
        ELSE IF Len(segments) <= 1 THEN q
        ELSE IF ~hasBareFulltext THEN q
        ELSE Join(rewritten, OrSep)

preprocessSearchQuery(q) ==
    LET tokens == tokenize(q)
        segments == SplitSegments(tokens, <<>>, <<>>)
        hasBareFulltext == \E i \in 1..Len(segments) : isBareFulltextSegment(segments[i])
        rewritten == [i \in 1..Len(segments) |-> RewriteSegment(segments[i])]
    IN  IF Len(tokens) = 0 THEN q
        ELSE IF Len(segments) <= 1 THEN q
        ELSE IF ~hasBareFulltext THEN q
        ELSE Join(rewritten, OrSep)

----------------------------------------------------------------------------
(* tools/diff: applyUnifiedDiff and resolveContent *)

\* String.prototype.split at the line feeds
RECURSIVE SplitLines(_)
SplitLines(s) ==
    LET i == IndexOf(s, <<"\n">>, 0)
    IN  IF i = -1 THEN <<s>>
        ELSE <<Slice(s, 0, i)>> \o SplitLines(SliceFrom(s, i + 1))

\* a hunk of a parsed unified diff: `oldStart` is the 1-based line of the @@
\* header, `lines` the hunk's lines, each [op |-> " " | "-" | "+", text |-> line];
\* a patch is the sequence of its hunks
Hunk(oldStart, lines) == [oldStart |-> oldStart, lines |-> lines]

HunkLine(op, text) == [op |-> op, text |-> text]

IsOldLine(l) == l.op \in {" ", "-"}

IsNewLine(l) == l.op \in {" ", "+"}

TextsOf(hunkLines) == [j \in 1..Len(hunkLines) |-> hunkLines[j].text]

\* a hunk that fits wherever the content has lines enough
HunkFits_AnyLine(lines, hunk, toPos) ==
    LET olds == TextsOf(SelectSeq(hunk.lines, IsOldLine))
    IN  toPos >= 0 /\ toPos + Len(olds) <= Len(lines)

\* hunkFits of applyPatch (no fuzz): every context and removed line of the hunk
\* equals the content's line, starting at 0-based line toPos
HunkFits(lines, hunk, toPos) ==
    LET olds == TextsOf(SelectSeq(hunk.lines, IsOldLine))
    IN  \A j \in 1..Len(olds) :
            /\ toPos + j >= 1
            /\ toPos + j <= Len(lines)
            /\ lines[toPos + j] = olds[j]

\* the search of applyPatch for one hunk (distanceIterator): toPos itself, then
\* the lines at growing distance, forward up to maxLine before backward down to
\* minLine; the first line where the hunk fits
LocateHunk(lines, hunk, toPos, minLine) ==
    LET olds == TextsOf(SelectSeq(hunk.lines, IsOldLine))
        maxLine == Len(lines) - Len(olds)
        tried == {p \in Min(minLine, toPos)..Max(maxLine, toPos) :
                    \/ p = toPos
                    \/ p > toPos /\ p <= maxLine
                    \/ p < toPos /\ p >= minLine}
        fits == {p \in tried : HunkFits(lines, hunk, p)}
        Dist(p) == IF p >= toPos THEN p - toPos ELSE toPos - p
    IN  IF fits = {} THEN [found |-> FALSE]
        ELSE [found |-> TRUE,
              pos |-> CHOOSE p \in fits :
                        \A r \in fits :
                            Dist(p) < Dist(r) \/ (Dist(p) = Dist(r) /\ p >= r)]

\* the first loop of applyPatch: every hunk is located, in order, before anything
\* is changed; `offset` is the drift of the hunks located so far
RECURSIVE LocateHunksFrom(_, _, _, _)
LocateHunksFrom(lines, hunks, minLine, offset) ==
    IF hunks = <<>> THEN [found |-> TRUE, at |-> <<>>]
    ELSE LET hunk == Head(hunks)
             oldLines == Len(SelectSeq(hunk.lines, IsOldLine))
             toPos == offset + hunk.oldStart - 1
             loc == LocateHunk(lines, hunk, toPos, minLine)
         IN  IF ~loc.found THEN [found |-> FALSE]
             ELSE LET rest == LocateHunksFrom(lines, Tail(hunks),
                                              loc.pos + 1 + oldLines,
                                              offset + (loc.pos - toPos))
                  IN  IF ~rest.found THEN [found |-> FALSE]
                      ELSE [found |-> TRUE, at |-> <<loc.pos>> \o rest.at]

\* the second loop of applyPatch: each hunk's old lines are replaced by its new
\* lines at the line found for it, shifted by what the hunks before it added
RECURSIVE ApplyHunksFrom(_, _, _, _)
ApplyHunksFrom(lines, hunks, at, diffOffset) ==
    IF hunks = <<>> THEN lines
    ELSE LET hunk == Head(hunks)
             olds == TextsOf(SelectSeq(hunk.lines, IsOldLine))
             news == TextsOf(SelectSeq(hunk.lines, IsNewLine))
             pos == Head(at) + diffOffset
         IN  ApplyHunksFrom(SubSeq(lines, 1, pos) \o news
                                \o SubSeq(lines, pos + Len(olds) + 1, Len(lines)),
                            Tail(hunks), Tail(at),
                            diffOffset + Len(news) - Len(olds))

\* applyPatch of the diff package on a parsed patch, a sequence of hunks: not
\* applied (the package returns false) when some hunk fits nowhere
applyPatch(content, patch) ==
    LET lines == SplitLines(content)
        located == LocateHunksFrom(lines, patch, 0, 0)
    IN  IF ~located.found THEN [applied |-> FALSE]
        ELSE [applied |-> TRUE,
              value |-> Join(ApplyHunksFrom(lines, patch, located.at, 0), <<"\n">>)]

\* an applier that hands back the content as it is when the patch does not apply
applyUnifiedDiff_ReturnsContentOnFailure(content, patch) ==
    LET result == applyPatch(content, patch)
    IN  IF ~result.applied THEN Returned(content)
        ELSE Returned(result.value)

applyUnifiedDiff(content, patch) ==
    LET result == applyPatch(content, patch)
    IN  IF ~result.applied THEN Thrown("PatchFailed", <<>>)
        ELSE Returned(result.value)

\* a request's optional fields: `has` names those that are not undefined
Fields == {"content", "changes", "patch"}

NoPatch == <<>>

Input(has, content, changes, patch) ==
    [has |-> has,
     content |-> IF "content" \in has THEN content ELSE <<>>,
     changes |-> IF "changes" \in has THEN changes ELSE <<>>,
     patch |-> IF "patch" \in has THEN patch ELSE NoPatch]

\* marked.parse on a paragraph of plain text
MarkedParse(content) ==
    IF content = <<>> THEN <<>> ELSE <<"<p>">> \o content \o <<"</p>", "\n">>

\* convertContent(content, format)
convertContent(content, format) ==
    IF format = "markdown" THEN MarkedParse(content) ELSE content

\* a resolver that hands back the existing content when no mode is given
resolveContent_NoModeReturnsExisting(existingContent, input, convertFn) ==
    LET resolved ==
            IF "content" \in input.has THEN Returned(input.content)
            ELSE IF "changes" \in input.has
                 THEN applySearchReplace(existingContent, input.changes)
            ELSE IF "patch" \in input.has
                 THEN applyUnifiedDiff(existingContent, input.patch)
            ELSE Returned(existingContent)
    IN  IF resolved.tag # "ok" THEN resolved
        ELSE IF convertFn # "none" THEN Returned(convertContent(resolved.value, convertFn))
        ELSE resolved

\* a resolver that converts only what the `content` field gave
resolveContent_ConvertsOnlyFullContent(existingContent, input, convertFn) ==
    IF "content" \in input.has
    THEN IF convertFn # "none" THEN Returned(convertContent(input.content, convertFn))
         ELSE Returned(input.content)
    ELSE IF "changes" \in input.has
         THEN applySearchReplace(existingContent, input.changes)
    ELSE IF "patch" \in input.has
         THEN applyUnifiedDiff(existingContent, input.patch)
    ELSE Thrown("NoModeSpecified", <<>>)

\* resolveContent(existingContent, input, convertFn); convertFn is "none"
\* (undefined) or "markdown" ((c) => convertContent(c, 'markdown'))
\* faulty variant of resolveContent: more than one populated field is an error
resolveContent_RejectsSeveralModes(existingContent, input, convertFn) ==
    LET resolved ==
            IF Cardinality(input.has) > 1 THEN Thrown("SeveralModes", <<>>)
            ELSE IF "content" \in input.has THEN Returned(input.content)
            ELSE IF "changes" \in input.has
                 THEN applySearchReplace(existingContent, input.changes)
            ELSE IF "patch" \in input.has
                 THEN applyUnifiedDiff(existingContent, input.patch)
            ELSE Thrown("NoModeSpecified", <<>>)
    IN  IF resolved.tag # "ok" THEN resolved
        ELSE IF convertFn # "none" THEN Returned(convertContent(resolved.value, convertFn))
        ELSE resolved

resolveContent(existingContent, input, convertFn) ==
    LET resolved ==
            IF "content" \in input.has THEN Returned(input.content)
            ELSE IF "changes" \in input.has
                 THEN applySearchReplace(existingContent, input.changes)
            ELSE IF "patch" \in input.has
                 THEN applyUnifiedDiff(existingContent, input.patch)
            ELSE Thrown("NoModeSpecified", <<>>)
    IN  IF resolved.tag # "ok" THEN resolved
        ELSE IF convertFn # "none" THEN Returned(convertContent(resolved.value, convertFn))
        ELSE resolved

\* the longest replacement echoed whole by the read-back verification
ReplacementEchoMax == 200

\* an echo that is never cut
EchoReplacement_NoTruncation(new_string) == new_string

\* new_string.length > 200 ? new_string.slice(0, 200) + '...' : new_string
EchoReplacement(new_string) ==
    IF Len(new_string) > ReplacementEchoMax
    THEN Slice(new_string, 0, ReplacementEchoMax) \o Ellipsis
    ELSE new_string

\* a verification that stops after the first change
verifySearchReplaceResults_FirstOnly(persistedContent, changes) ==
    IF changes # <<>> /\ changes[1].new_string # <<>>
            /\ IndexOf(persistedContent, changes[1].new_string, 0) = -1
    THEN Thrown("ReadbackMismatch", <<EchoReplacement(changes[1].new_string)>>)
    ELSE [tag |-> "ok"]

\* verifySearchReplaceResults(persistedContent, changes): the error lists the
\* non-empty new_strings that are not in the persisted content
verifySearchReplaceResults(persistedContent, changes) ==
    LET IsMissing(change) ==
            /\ change.new_string # <<>>
            /\ IndexOf(persistedContent, change.new_string, 0) = -1
        missing == SelectSeq(changes, IsMissing)
    IN  IF Len(missing) > 0
        THEN Thrown("ReadbackMismatch",
                    [j \in 1..Len(missing) |-> EchoReplacement(missing[j].new_string)])
        ELSE [tag |-> "ok"]

----------------------------------------------------------------------------
(* tools/notes: update_note_content and append_note_content *)

Formats == {"undefined", "html", "markdown"}

Request(tool, has, content, changes, patch, format) ==
    [tool |-> tool, format |-> format, input |-> Input(has, content, changes, patch)]

\* a schema check without the `modes > 1` branch
SchemaAccepts_SeveralModes(req) ==
    LET modes == Cardinality(req.input.has)
    IN  /\ modes # 0
        /\ ~(req.format = "markdown" /\ req.input.has \cap {"changes", "patch"} # {})

\* the .check of updateNoteContentSchema / appendNoteContentSchema: no issue raised
SchemaAccepts(req) ==
    LET modes == Cardinality(req.input.has)
    IN  /\ modes # 0
        /\ ~(modes > 1)
        /\ ~(req.format = "markdown" /\ req.input.has \cap {"changes", "patch"} # {})

\* the response of a successful call
Success(tool) ==
    [tag |-> "ok",
     value |-> IF tool = "update_note_content"
               THEN "Note content updated successfully"
               ELSE "Content appended to note successfully"]

\* a call of handleNoteTool that has not started
NewCall(req) ==
    [req |-> req, pc |-> "start", existingContent |-> <<>>, finalContent |-> <<>>,
     response |-> Pending, gets |-> 0, puts |-> <<>>]

\* the call after client.getNoteContent returned `content`
Fetched(call, content) == [call EXCEPT !.existingContent = content, !.gets = @ + 1]

\* the call rejected with `error`, or returning `response`
Finish(call, response) == [call EXCEPT !.pc = "done", !.response = response]

\* the call after a client request failed (the response was not ok)
RequestFailed(call) == Finish(call, Thrown("TriliumClientError", <<>>))

\* faulty variant of Resolved: a failed resolveContent is swallowed and the
\* content fetched is written back
Resolved_WritesOnError(call, resolved) ==
    IF resolved.tag # "ok"
    THEN [call EXCEPT !.finalContent = call.existingContent, !.pc = "put"]
    ELSE [call EXCEPT !.finalContent = resolved.value, !.pc = "put"]

\* the call after `finalContent = await resolveContent(...)`: a rejection leaves the
\* handler, a value is what client.updateNoteContent will be given
Resolved(call, resolved) ==
    IF resolved.tag # "ok" THEN Finish(call, resolved)
    ELSE [call EXCEPT !.finalContent = resolved.value, !.pc = "put"]

\* { changes: parsed.changes, patch: parsed.patch }
DiffInput(req) ==
    Input(req.input.has \ {"content"}, <<>>, req.input.changes, req.input.patch)

\* { content: parsed.content }
FullInput(req) ==
    Input(req.input.has \cap {"content"}, req.input.content, <<>>, NoPatch)

IsDiffMode(req) == req.input.has \cap {"changes", "patch"} # {}

\* faulty variant of UpdateStart: the current content is fetched in every mode
UpdateStart_AlwaysFetches(c) ==
    LET call == calls[c]
        req == call.req
    IN  /\ call.pc = "start"
        /\ req.tool = "update_note_content"
        /\ IF ~SchemaAccepts(req)
           THEN calls' = [calls EXCEPT ![c] = Finish(call, Thrown("ZodError", <<>>))]
           ELSE \E ok \in BOOLEAN :
                    calls' = [calls EXCEPT ![c] =
                        IF ~ok THEN RequestFailed(Fetched(call, <<>>))
                        ELSE IF IsDiffMode(req)
                        THEN Resolved(Fetched(call, store),
                                      resolveContent(store, DiffInput(req), "none"))
                        ELSE Resolved(Fetched(call, store),
                                resolveContent(<<>>, FullInput(req),
                                    IF req.format = "markdown" THEN "markdown" ELSE "none"))]
        /\ UNCHANGED <<store, srVars, qVars, dVars>>

\* case 'update_note_content', up to the call of client.updateNoteContent:
\* parse, then fetch and resolve (diff modes) or resolve alone (full replacement)
UpdateStart(c) ==
    LET call == calls[c]
        req == call.req
    IN  /\ call.pc = "start"
        /\ req.tool = "update_note_content"
        /\ IF ~SchemaAccepts(req)
           THEN calls' = [calls EXCEPT ![c] = Finish(call, Thrown("ZodError", <<>>))]
           ELSE IF IsDiffMode(req)
           THEN \E ok \in BOOLEAN :
                    calls' = [calls EXCEPT ![c] =
                        IF ok
                        THEN Resolved(Fetched(call, store),
                                      resolveContent(store, DiffInput(req), "none"))
                        ELSE RequestFailed(Fetched(call, <<>>))]
           ELSE calls' = [calls EXCEPT ![c] =
                    Resolved(call,
                             resolveContent(<<>>, FullInput(req),
                                 IF req.format = "markdown" THEN "markdown" ELSE "none"))]
        /\ UNCHANGED <<store, srVars, qVars, dVars>>

\* case 'append_note_content', up to the call of client.updateNoteContent:
\* parse, fetch, then resolve (diff modes) or concatenate (append)
AppendStart(c) ==
    LET call == calls[c]
        req == call.req
    IN  /\ call.pc = "start"
        /\ req.tool = "append_note_content"
        /\ IF ~SchemaAccepts(req)
           THEN calls' = [calls EXCEPT ![c] = Finish(call, Thrown("ZodError", <<>>))]
           ELSE \E ok \in BOOLEAN :
                    calls' = [calls EXCEPT ![c] =
                        IF ~ok THEN RequestFailed(Fetched(call, <<>>))
                        ELSE IF IsDiffMode(req)
                        THEN Resolved(Fetched(call, store),
                                      resolveContent(store, DiffInput(req), "none"))
                        ELSE Resolved(Fetched(call, store),
                                Returned(store
                                    \o convertContent(req.input.content, req.format)))]
        /\ UNCHANGED <<store, srVars, qVars, dVars>>

\* a write that is refused when the note no longer holds the content fetched
Put_CompareAndSwap(c) ==
    LET call == calls[c]
        sent == [call EXCEPT !.puts = Append(@, call.finalContent)]
    IN  /\ call.pc = "put"
        /\ \E ok \in BOOLEAN :
            IF ~ok \/ (IsDiffMode(call.req) /\ store # call.existingContent)
            THEN /\ calls' = [calls EXCEPT ![c] = RequestFailed(sent)]
                 /\ UNCHANGED store
            ELSE /\ store' = call.finalContent
                 /\ calls' = [calls EXCEPT ![c] =
                        IF "changes" \in call.req.input.has
                        THEN [sent EXCEPT !.pc = "readBack"]
                        ELSE Finish(sent, Success(call.req.tool))]
        /\ UNCHANGED <<srVars, qVars, dVars>>

\* a write followed by a read-back in patch mode as well
Put_ReadsBackEveryDiff(c) ==
    LET call == calls[c]
        sent == [call EXCEPT !.puts = Append(@, call.finalContent)]
    IN  /\ call.pc = "put"
        /\ \E ok \in BOOLEAN :
            IF ~ok
            THEN /\ calls' = [calls EXCEPT ![c] = RequestFailed(sent)]
                 /\ UNCHANGED store
            ELSE /\ store' = call.finalContent
                 /\ calls' = [calls EXCEPT ![c] =
                        IF IsDiffMode(call.req)
                        THEN [sent EXCEPT !.pc = "readBack"]
                        ELSE Finish(sent, Success(call.req.tool))]
        /\ UNCHANGED <<srVars, qVars, dVars>>

\* await client.updateNoteContent(parsed.noteId, finalContent), of either tool
Put(c) ==
    LET call == calls[c]
        sent == [call EXCEPT !.puts = Append(@, call.finalContent)]
    IN  /\ call.pc = "put"
        /\ \E ok \in BOOLEAN :
            IF ~ok
            THEN /\ calls' = [calls EXCEPT ![c] = RequestFailed(sent)]
                 /\ UNCHANGED store
            ELSE /\ store' = call.finalContent
                 /\ calls' = [calls EXCEPT ![c] =
                        IF "changes" \in call.req.input.has
                        THEN [sent EXCEPT !.pc = "readBack"]
                        ELSE Finish(sent, Success(call.req.tool))]
        /\ UNCHANGED <<srVars, qVars, dVars>>

\* the read-back of either tool: client.getNoteContent, verifySearchReplaceResults
\* and the return
\* faulty variant of ReadBack: on a mismatch the content fetched before the edits
\* is written back
ReadBack_RollsBack(c) ==
    LET call == calls[c]
        verified == verifySearchReplaceResults(store, call.req.input.changes)
        read == [call EXCEPT !.gets = @ + 1]
    IN  /\ call.pc = "readBack"
        /\ \E ok \in BOOLEAN :
            IF ~ok
            THEN /\ calls' = [calls EXCEPT ![c] = RequestFailed(read)]
                 /\ UNCHANGED store
            ELSE IF verified.tag # "ok"
            THEN /\ calls' = [calls EXCEPT ![c] =
                        Finish([read EXCEPT !.puts = Append(@, call.existingContent)],
                               verified)]
                 /\ store' = call.existingContent
            ELSE /\ calls' = [calls EXCEPT ![c] = Finish(read, Success(call.req.tool))]
                 /\ UNCHANGED store
        /\ UNCHANGED <<srVars, qVars, dVars>>

ReadBack(c) ==
    LET call == calls[c]
        verified == verifySearchReplaceResults(store, call.req.input.changes)
    IN  /\ call.pc = "readBack"
        /\ \E ok \in BOOLEAN :
            calls' = [calls EXCEPT ![c] =
                IF ~ok THEN RequestFailed([call EXCEPT !.gets = @ + 1])
                ELSE IF verified.tag # "ok"
                THEN Finish([call EXCEPT !.gets = @ + 1], verified)
                ELSE Finish([call EXCEPT !.gets = @ + 1], Success(call.req.tool))]
        /\ UNCHANGED <<store, srVars, qVars, dVars>>


----------------------------------------------------------------------------
(* Inputs *)

\* all strings of at most n characters
Strings(n) == UNION {[1..k -> Alphabet] : k \in 0..n}

ChangeChars(change) == Len(change.old_string) + Len(change.new_string)

\* the search/replace blocks of at most `budget` characters
Blocks(budget) ==
    {c \in [old_string : Strings(budget), new_string : Strings(budget)] :
        ChangeChars(c) <= budget}

\* the strings around `limit` characters long: letters a up to the limit, letters
\* b beyond it
LongStrings(limit) ==
    {[i \in 1..n |-> IF i <= limit THEN "a" ELSE "b"] :
        n \in (limit - EchoSlack)..(limit + EchoSlack)}

RECURSIVE ChangeLists(_, _)
\* the `changes` arrays of at most n blocks and `budget` characters in all
ChangeLists(n, budget) ==
    IF n = 0 THEN {<<>>}
    ELSE {<<>>} \cup
         UNION {{<<c>> \o rest : rest \in ChangeLists(n - 1, budget - ChangeChars(c))} :
                    c \in Blocks(budget)}

----------------------------------------------------------------------------
(* Specification SpecSR: one call of applySearchReplace *)

NoSearchReplaceCall ==
    /\ srContent = <<>>
    /\ srChanges = <<>>
    /\ srOutcome = Pending

NoQueryCall ==
    /\ query = <<>>
    /\ qOutcome = Pending

NoHandlerCall ==
    /\ store = <<>>
    /\ calls = <<>>

\* a call of resolveContent before it runs
ResolveCall(existingContent, input, convertFn) ==
    [existingContent |-> existingContent, input |-> input, convertFn |-> convertFn,
     outcome |-> Pending]

\* a call of applyUnifiedDiff before it runs, and before it runs a second time
\* on what it returned
PatchCall(content, patch) ==
    [content |-> content, patch |-> patch, outcome |-> Pending, again |-> Pending]

\* a call of verifySearchReplaceResults before it runs
VerifyCall(persistedContent, changes) ==
    [persistedContent |-> persistedContent, changes |-> changes, outcome |-> Pending]

NoResolveCall == resolveCall = ResolveCall(<<>>, Input({}, <<>>, <<>>, NoPatch), "none")

NoPatchCall == patchCall = PatchCall(<<>>, NoPatch)

NoVerifyCall == verifyCall = VerifyCall(<<>>, <<>>)

NoDiffCall == NoResolveCall /\ NoPatchCall /\ NoVerifyCall

InitSR ==
    /\ srContent \in Strings(MaxContentLen)
    /\ srChanges \in ChangeLists(MaxChanges, MaxChangeChars)
    /\ srOutcome = Pending
    /\ NoQueryCall
    /\ NoHandlerCall
    /\ NoDiffCall

CallApplySearchReplace ==
    /\ srOutcome = Pending
    /\ srOutcome' = applySearchReplace(srContent, srChanges)
    /\ UNCHANGED <<srContent, srChanges, qVars, hVars, dVars>>

NextSR == CallApplySearchReplace

SpecSR == InitSR /\ [][NextSR]_vars

----------------------------------------------------------------------------
(* Specification SpecEcho: one call of applySearchReplace with a long old_string *)

\* `changes` arrays with an old_string around 100 characters long, alone or
\* after a short block
LongSearchLists ==
    LET long == {[old_string |-> o, new_string |-> n] :
                    o \in LongStrings(SearchEchoMax), n \in Strings(1)}
    IN  {<<l>> : l \in long} \cup {<<c, l>> : c \in Blocks(1), l \in long}

\* contents that hold a long string not at all, once or twice
LongSearchContents ==
    Strings(1) \cup LongStrings(SearchEchoMax)
        \cup {l \o l : l \in LongStrings(SearchEchoMax)}

InitEcho ==
    /\ srContent \in LongSearchContents
    /\ srChanges \in LongSearchLists
    /\ srOutcome = Pending
    /\ NoQueryCall
    /\ NoHandlerCall
    /\ NoDiffCall

NextEcho == CallApplySearchReplace

SpecEcho == InitEcho /\ [][NextEcho]_vars

----------------------------------------------------------------------------
(* Specification SpecQuery: one call of preprocessSearchQuery *)

\* what queries are put together from: a word, a blank and a second word, a
\* blank, the operator in lower
\* case with blanks around it and in upper case with a blank before it, an
\* attribute sigil, a double quote, a backslash, an exclamation mark and a
\* quoted phrase with the word "or" in it
Pieces ==
    { <<"a">>, <<" ", "b">>, <<" ">>, <<" ", "o", "r", " ">>, <<" ", "O", "R">>,
      <<"#">>, <<"\"">>, <<"\\">>, <<"!">>,
      <<"\"", "a", " ", "o", "r", " ", "b", "\"">>,
      <<"\"", "\\", "\n", "#", "\"">> }

RECURSIVE Queries(_)
\* the queries made of at most n pieces
Queries(n) ==
    IF n = 0 THEN {<<>>}
    ELSE Queries(n - 1) \cup {q \o p : q \in Queries(n - 1), p \in Pieces}

InitQuery ==
    /\ query \in Queries(MaxPieces)
    /\ qOutcome = Pending
    /\ NoSearchReplaceCall
    /\ NoHandlerCall
    /\ NoDiffCall

CallPreprocessSearchQuery ==
    /\ qOutcome = Pending
    /\ qOutcome' = Returned(preprocessSearchQuery(query))
    /\ UNCHANGED <<query, srVars, hVars, dVars>>

NextQuery == CallPreprocessSearchQuery

SpecQuery == InitQuery /\ [][NextQuery]_vars

----------------------------------------------------------------------------
(* Specification Spec: one call of handleNoteTool on a note of the remote store *)

\* the note's content before the call
StoreContents == Strings(MaxStoreLen) \cup {<<"a", "\n", "b">>}

\* the patches of the requests: line "a" replaced by "b"; line "b" added after
\* the context line "a"; line "b" removed at line 2
Patches ==
    { <<Hunk(1, <<HunkLine("-", <<"a">>), HunkLine("+", <<"b">>)>>)>>,
      <<Hunk(1, <<HunkLine(" ", <<"a">>), HunkLine("+", <<"b">>)>>)>>,
      <<Hunk(2, <<HunkLine("-", <<"b">>)>>)>> }

SampleChanges == <<[old_string |-> <<"a">>, new_string |-> <<"b">>]>>

SamplePatch == <<Hunk(1, <<HunkLine("-", <<"a">>), HunkLine("+", <<"b">>)>>)>>

\* the requests the schema accepts
AcceptedRequests(tool) ==
    {Request(tool, {"content"}, c, <<>>, NoPatch, f) :
        c \in Strings(MaxRequestContentLen), f \in Formats}
    \cup {Request(tool, {"changes"}, <<>>, ch, NoPatch, f) :
        ch \in ChangeLists(MaxRequestChanges, MaxRequestChangeChars),
        f \in {"undefined", "html"}}
    \cup {Request(tool, {"patch"}, <<>>, <<>>, p, f) :
        p \in Patches, f \in {"undefined", "html"}}

\* requests with any of content / changes / patch given or left out and any
\* format: among them those with no mode, with several, and with markdown and
\* a diff mode
SampleRequests(tool) ==
    {Request(tool, has, <<"b">>, SampleChanges, SamplePatch, f) :
        has \in SUBSET Fields, f \in Formats}

\* a chain of two dependent edits: "a" becomes "b", which is then deleted
ChainChanges ==
    <<[old_string |-> <<"a">>, new_string |-> <<"b">>],
      [old_string |-> <<"b">>, new_string |-> <<>>]>>

ChainRequests(tool) ==
    {Request(tool, {"changes"}, <<>>, ChainChanges, NoPatch, "undefined")}

Requests ==
    UNION {AcceptedRequests(tool) \cup SampleRequests(tool) \cup ChainRequests(tool) :
            tool \in {"update_note_content", "append_note_content"}}

Init ==
    /\ store \in StoreContents
    /\ calls \in [{1} -> {NewCall(r) : r \in Requests}]
    /\ NoSearchReplaceCall
    /\ NoQueryCall
    /\ NoDiffCall

Next ==
    \/ \E c \in DOMAIN calls : UpdateStart(c)
    \/ \E c \in DOMAIN calls : AppendStart(c)
    \/ \E c \in DOMAIN calls : Put(c)
    \/ \E c \in DOMAIN calls : ReadBack(c)

Spec == Init /\ [][Next]_vars

----------------------------------------------------------------------------
(* Two update_note_content calls in edit-list mode on the same note; the
   handler is async, so the steps of the two calls interleave at every await *)

MaxRaceChars == 1

\* edit-list requests with one edit each
RaceRequests ==
    {Request("update_note_content", {"changes"}, <<>>,
             <<[old_string |-> o, new_string |-> n]>>, NoPatch, "undefined") :
        o \in Strings(MaxRaceChars) \ {<<>>}, n \in Strings(MaxRaceChars)}

InitRace ==
    /\ store \in StoreContents
    /\ calls \in [{1, 2} -> {NewCall(r) : r \in RaceRequests}]
    /\ NoSearchReplaceCall
    /\ NoQueryCall
    /\ NoDiffCall

NextRace ==
    \/ \E c \in DOMAIN calls : UpdateStart(c)
    \/ \E c \in DOMAIN calls : Put(c)
    \/ \E c \in DOMAIN calls : ReadBack(c)

SpecRace == InitRace /\ [][NextRace]_vars

----------------------------------------------------------------------------
(* Specification SpecResolve: one call of resolveContent *)

\* the `input` objects: any of content / changes / patch given or undefined
ResolveInputs ==
    {Input(has, c, ch, p) :
        has \in SUBSET Fields,
        c \in Strings(MaxRequestContentLen),
        ch \in ChangeLists(MaxRequestChanges, MaxRequestChangeChars),
        p \in Patches}

\* convertFn: undefined, or (c) => convertContent(c, 'markdown')
ConvertFns == {"none", "markdown"}

InitResolve ==
    /\ resolveCall \in {ResolveCall(e, i, f) :
                            e \in StoreContents, i \in ResolveInputs, f \in ConvertFns}
    /\ NoPatchCall
    /\ NoVerifyCall
    /\ NoSearchReplaceCall
    /\ NoQueryCall
    /\ NoHandlerCall

CallResolveContent ==
    /\ resolveCall.outcome = Pending
    /\ resolveCall' =
            [resolveCall EXCEPT !.outcome =
                resolveContent(resolveCall.existingContent, resolveCall.input,
                               resolveCall.convertFn)]
    /\ UNCHANGED <<srVars, qVars, hVars, patchCall, verifyCall>>

NextResolve == CallResolveContent

SpecResolve == InitResolve /\ [][NextResolve]_vars

----------------------------------------------------------------------------
(* Specification SpecPatch: applyUnifiedDiff on a content, then on its result *)

\* the lines contents and hunks are made of
LineTexts == {<<c>> : c \in Alphabet}

\* the empty content and the contents of at most MaxPatchLines lines
PatchContents ==
    {<<>>} \cup {Join(ls, <<"\n">>) :
                    ls \in UNION {[1..k -> LineTexts] : k \in 1..MaxPatchLines}}

\* the bodies of hunks of at most n lines, with a context or removed line
HunkBodies(n) ==
    {ls \in UNION {[1..k -> [op : {" ", "-", "+"}, text : LineTexts]] : k \in 1..n} :
        \E j \in 1..Len(ls) : IsOldLine(ls[j])}

RECURSIVE PatchesOf(_, _)
\* the patches of at most h hunks and n hunk lines in all
PatchesOf(h, n) ==
    IF h = 0 \/ n = 0 THEN {<<>>}
    ELSE {<<>>} \cup
         UNION {{<<Hunk(st, ls)>> \o rest : rest \in PatchesOf(h - 1, n - Len(ls))} :
                    st \in 1..MaxPatchLines, ls \in HunkBodies(n)}

\* the hunks of a unified diff follow each other in the old file without
\* overlapping
HunksInOrder(patch) ==
    \A h \in 1..(Len(patch) - 1) :
        patch[h + 1].oldStart >=
            patch[h].oldStart + Len(SelectSeq(patch[h].lines, IsOldLine))

\* the patches handed to applyUnifiedDiff: at least one hunk, hunks in order
PatchInputs ==
    {p \in PatchesOf(MaxHunks, MaxHunkLines) : p # <<>> /\ HunksInOrder(p)}

InitPatch ==
    /\ patchCall \in {PatchCall(c, p) : c \in PatchContents, p \in PatchInputs}
    /\ NoResolveCall
    /\ NoVerifyCall
    /\ NoSearchReplaceCall
    /\ NoQueryCall
    /\ NoHandlerCall

\* applyUnifiedDiff(content, patch)
CallApplyUnifiedDiff ==
    /\ patchCall.outcome = Pending
    /\ patchCall' =
            [patchCall EXCEPT !.outcome =
                applyUnifiedDiff(patchCall.content, patchCall.patch)]
    /\ UNCHANGED <<srVars, qVars, hVars, resolveCall, verifyCall>>

\* applyUnifiedDiff(patched, patch), the same patch on what the first call returned
CallApplyUnifiedDiffAgain ==
    /\ patchCall.outcome.tag = "ok"
    /\ patchCall.again = Pending
    /\ patchCall' =
            [patchCall EXCEPT !.again =
                applyUnifiedDiff(patchCall.outcome.value, patchCall.patch)]
    /\ UNCHANGED <<srVars, qVars, hVars, resolveCall, verifyCall>>

NextPatch ==
    \/ CallApplyUnifiedDiff
    \/ CallApplyUnifiedDiffAgain

SpecPatch == InitPatch /\ [][NextPatch]_vars

----------------------------------------------------------------------------
(* Specification SpecVerify: one call of verifySearchReplaceResults *)

\* `changes` arrays with a long new_string, alone or beside a short block
LongReplacementLists ==
    LET long == {[old_string |-> <<"a">>, new_string |-> n] :
                    n \in LongStrings(ReplacementEchoMax)}
        short == Blocks(1)
    IN  {<<l>> : l \in long}
            \cup {<<l, c>> : l \in long, c \in short}
            \cup {<<c, l>> : l \in long, c \in short}

InitVerify ==
    /\ verifyCall \in {VerifyCall(p, ch) :
            p \in Strings(MaxContentLen) \cup LongStrings(ReplacementEchoMax),
            ch \in ChangeLists(MaxChanges, MaxChangeChars) \cup LongReplacementLists}
    /\ NoResolveCall
    /\ NoPatchCall
    /\ NoSearchReplaceCall
    /\ NoQueryCall
    /\ NoHandlerCall

CallVerifySearchReplaceResults ==
    /\ verifyCall.outcome = Pending
    /\ verifyCall' =
            [verifyCall EXCEPT !.outcome =
                verifySearchReplaceResults(verifyCall.persistedContent,
                                           verifyCall.changes)]
    /\ UNCHANGED <<srVars, qVars, hVars, resolveCall, patchCall>>

NextVerify == CallVerifySearchReplaceResults

SpecVerify == InitVerify /\ [][NextVerify]_vars

----------------------------------------------------------------------------
(* Claims about applySearchReplace (checked under SpecSR) *)

\* the 0-based positions at which `s` occurs in `c`, overlapping ones included
Occurrences(c, s) == {i \in 0..(Len(c) - Len(s)) : SubSeq(c, i + 1, i + Len(s)) = s}

\* the first k blocks of `changes`
Prefix(changes, k) == SubSeq(changes, 1, k)

\* the blocks of `changes` after the k-th
Suffix(changes, k) == SubSeq(changes, k + 1, Len(changes))

SrDone == srOutcome # Pending

\* C1: when the single change's non-empty old_string occurs exactly once in the
\* content, the call returns prefix + new_string + suffix around that occurrence,
\* and the result's length is C.length - S.length + R.length.
C1_SingleOccurrenceReplaced ==
    LET S == srChanges[1].old_string
        R == srChanges[1].new_string
        occ == Occurrences(srContent, S)
    IN  (SrDone /\ Len(srChanges) = 1 /\ S # <<>> /\ Cardinality(occ) = 1) =>
            LET i == CHOOSE i \in occ : TRUE
            IN  /\ srOutcome = Returned(SubSeq(srContent, 1, i) \o R
                        \o SubSeq(srContent, i + Len(S) + 1, Len(srContent)))
                /\ Len(srOutcome.value) = Len(srContent) - Len(S) + Len(R)

\* a single occurrence strictly inside the content, replaced by a shorter string
C1_Witness ==
    /\ srOutcome.tag = "ok"
    /\ Len(srChanges) = 1
    /\ Len(srChanges[1].old_string) = 2
    /\ Len(srChanges[1].new_string) = 1
    /\ Occurrences(srContent, srChanges[1].old_string) = {0}
    /\ Len(srContent) = 3

\* C2: a change whose non-empty old_string occurs at least twice in the content
\* produced by the changes before it (overlapping occurrences count) makes the
\* call throw the "ambiguous" error; nothing is returned.
C2_SecondOccurrenceIsAmbiguous ==
    \A k \in 1..Len(srChanges) :
        LET before == applySearchReplace(srContent, Prefix(srChanges, k - 1))
            S == srChanges[k].old_string
        IN  (SrDone /\ before.tag = "ok" /\ S # <<>>
                /\ Cardinality(Occurrences(before.value, S)) >= 2) =>
                srOutcome = Thrown("Ambiguous", S)

\* the two occurrences overlap ("aa" in "aaa")
C2_Witness ==
    /\ srOutcome.tag = "error"
    /\ srOutcome.kind = "Ambiguous"
    /\ Len(srChanges) = 1
    /\ Len(srChanges[1].old_string) = 2
    /\ Occurrences(srContent, srChanges[1].old_string) = {0, 1}

\* C3: a change whose non-empty old_string does not occur in the content produced
\* by the changes before it makes the call throw the "could not find" error.
C3_AbsentIsNotFound ==
    \A k \in 1..Len(srChanges) :
        LET before == applySearchReplace(srContent, Prefix(srChanges, k - 1))
            S == srChanges[k].old_string
        IN  (SrDone /\ before.tag = "ok" /\ S # <<>>
                /\ Occurrences(before.value, S) = {}) =>
                srOutcome = Thrown("NotFound", S)

\* the search string was in the original content and an earlier change removed it
C3_Witness ==
    /\ srOutcome.tag = "error"
    /\ srOutcome.kind = "NotFound"
    /\ Len(srChanges) = 2
    /\ Occurrences(srContent, srChanges[2].old_string) # {}

\* C4: a change with an empty old_string prepends its new_string to the content
\* produced by the changes before it and cannot fail, at any position of the list
\* (and applySearchReplace(C, [{"", P}]) = P + C).
C4_EmptySearchPrepends ==
    \A k \in 1..Len(srChanges) :
        LET before == applySearchReplace(srContent, Prefix(srChanges, k - 1))
            upto == applySearchReplace(srContent, Prefix(srChanges, k))
            P == srChanges[k].new_string
        IN  (SrDone /\ before.tag = "ok" /\ srChanges[k].old_string = <<>>) =>
                /\ upto = Returned(P \o before.value)
                /\ k = Len(srChanges) => srOutcome = Returned(P \o before.value)
                /\ srOutcome.tag = "error" =>
                        \E j \in (k + 1)..Len(srChanges) :
                            srOutcome.shown = srChanges[j].old_string

\* a prepend as the second change, after a replacement
C4_Witness ==
    /\ srOutcome.tag = "ok"
    /\ Len(srChanges) = 2
    /\ srChanges[1].old_string # <<>>
    /\ srChanges[2].old_string = <<>>
    /\ srChanges[2].new_string # <<>>
    /\ srContent # <<>>

\* C5: the changes are a left fold: if the first k changes succeed with C1, the
\* whole call behaves as applySearchReplace(C1, remaining changes), result or error.
C5_LeftFold ==
    \A k \in 0..Len(srChanges) :
        LET first == applySearchReplace(srContent, Prefix(srChanges, k))
        IN  (SrDone /\ first.tag = "ok") =>
                srOutcome = applySearchReplace(first.value, Suffix(srChanges, k))

\* a dependent chain: the second search string exists only after the first change
C5_Witness ==
    /\ srOutcome.tag = "ok"
    /\ Len(srChanges) = 2
    /\ srChanges[1].old_string # <<>>
    /\ srChanges[2].old_string # <<>>
    /\ Occurrences(srContent, srChanges[2].old_string) = {}

----------------------------------------------------------------------------
(* Claims about preprocessSearchQuery (checked under SpecQuery) *)

QDone == qOutcome # Pending

\* a token that is the word "or" in any casing
IsOrWord(token) ==
    token \in {<<"o", "r">>, <<"O", "r">>, <<"o", "R">>, <<"O", "R">>}

\* the maximal runs of tokens between OR words, in order
OrSegments(tokens) ==
    LET n == Len(tokens)
        starts == {i \in 1..n :
                    ~IsOrWord(tokens[i]) /\ (i = 1 \/ IsOrWord(tokens[i - 1]))}
        endOf(s) == CHOOSE j \in s..n :
                        /\ \A k \in s..j : ~IsOrWord(tokens[k])
                        /\ j = n \/ IsOrWord(tokens[j + 1])
        nth(k) == CHOOSE s \in starts : Cardinality({r \in starts : r < s}) = k - 1
    IN  [k \in 1..Cardinality(starts) |-> SubSeq(tokens, nth(k), endOf(nth(k)))]

RECURSIVE Concat(_)
\* the strings of a sequence one after the other
Concat(strs) == IF strs = <<>> THEN <<>> ELSE Head(strs) \o Concat(Tail(strs))

\* strs[1] sep strs[2] sep ... strs[n]
Separated(strs, sep) ==
    Concat([i \in 1..Len(strs) |-> IF i = 1 THEN strs[i] ELSE sep \o strs[i]])

\* t -> note.content *=* t
Contains(t) ==
    <<"n", "o", "t", "e", ".", "c", "o", "n", "t", "e", "n", "t">>
        \o <<" ", "*", "=", "*", " ">> \o t

\* the contains-expression the bare segment t1..tn stands for
ExpectedWrap(seg) ==
    IF Len(seg) = 1 THEN Contains(seg[1])
    ELSE <<"(">>
            \o Separated([i \in 1..Len(seg) |-> Contains(seg[i])],
                         <<" ", "A", "N", "D", " ">>)
            \o <<")">>

QSegments == OrSegments(tokenize(query))

\* C7: a query with no unquoted standalone "or" token (in any casing) is returned
\* unchanged, character for character.
C7_NoOrUnchanged ==
    (QDone /\ \A i \in 1..Len(tokenize(query)) : ~IsOrWord(tokenize(query)[i])) =>
        qOutcome = Returned(query)

\* several tokens that are not simply separated by single blanks, and an "or"
\* that is no token of its own
C7_Witness ==
    /\ QDone
    /\ \A i \in 1..Len(tokenize(query)) : ~IsOrWord(tokenize(query)[i])
    /\ Len(tokenize(query)) >= 2
    /\ \E i \in 1..(Len(query) - 1) : query[i] = "o" /\ query[i + 1] = "r"
    /\ Join(tokenize(query), Blank) # query

\* C8: with at least two segments, one of them bare, every bare segment becomes
\* note.content *=* t (one token) or (note.content *=* t1 AND ... AND
\* note.content *=* tn), and the segments are joined by " OR " in their order.
C8_BareSegmentsWrapped ==
    (QDone /\ Len(QSegments) >= 2
        /\ \E k \in 1..Len(QSegments) : isBareFulltextSegment(QSegments[k])) =>
        qOutcome = Returned(Separated(
            [k \in 1..Len(QSegments) |->
                IF isBareFulltextSegment(QSegments[k])
                THEN ExpectedWrap(QSegments[k])
                ELSE RewriteSegment(QSegments[k])],
            <<" ", "O", "R", " ">>))

\* a bare segment of two tokens, and a second segment
C8_Witness ==
    /\ QDone
    /\ Len(QSegments) = 2
    /\ isBareFulltextSegment(QSegments[1])
    /\ Len(QSegments[1]) = 2
    /\ QSegments[1][1] # QSegments[1][2]
    /\ isBareFulltextSegment(QSegments[2])

\* C9: with OR operators but no bare segment the query is returned unchanged,
\* operator casing and spacing included.
C9_StructuredOrUnchanged ==
    (QDone /\ Len(QSegments) >= 2
        /\ \A k \in 1..Len(QSegments) : ~isBareFulltextSegment(QSegments[k])) =>
        qOutcome = Returned(query)

\* two structured segments around a lower-case operator
C9_Witness ==
    /\ QDone
    /\ Len(QSegments) = 2
    /\ \A k \in 1..2 : ~isBareFulltextSegment(QSegments[k])
    /\ \E i \in 1..Len(tokenize(query)) : tokenize(query)[i] = <<"o", "r">>

\* C10: in a query mixing bare and structured segments only the bare ones are
\* wrapped; a structured segment is emitted as its tokens joined by single blanks
\* ("a or #b" becomes "note.content *=* a OR #b").
C10_StructuredSegmentsKept ==
    (/\ QDone
     /\ \E k \in 1..Len(QSegments) : isBareFulltextSegment(QSegments[k])
     /\ \E k \in 1..Len(QSegments) : ~isBareFulltextSegment(QSegments[k])) =>
        /\ qOutcome = Returned(Separated(
                [k \in 1..Len(QSegments) |->
                    IF isBareFulltextSegment(QSegments[k])
                    THEN wrapFulltextSegment(QSegments[k])
                    ELSE Separated(QSegments[k], <<" ">>)],
                <<" ", "O", "R", " ">>))
        /\ query = <<"a", " ", "o", "r", " ", "#", "a">> =>
                qOutcome.value = Contains(<<"a">>) \o <<" ", "O", "R", " ", "#", "a">>

\* a bare segment followed by a structured segment of two tokens
C10_Witness ==
    /\ QDone
    /\ Len(QSegments) = 2
    /\ isBareFulltextSegment(QSegments[1])
    /\ ~isBareFulltextSegment(QSegments[2])
    /\ Len(QSegments[2]) = 2

\* the number of backslashes that stand immediately before position i of q,
\* the opening quote at position 1 left out
BackslashesBefore(q, i) ==
    Cardinality({k \in 2..(i - 1) : \A j \in k..(i - 1) : q[j] = "\\"})

\* q is one double-quoted phrase: it opens and closes with a quote, and every
\* quote in between is escaped by a backslash
IsQuotedPhrase(q) ==
    /\ Len(q) >= 2
    /\ q[1] = "\"" /\ q[Len(q)] = "\""
    /\ BackslashesBefore(q, Len(q)) % 2 = 0
    /\ \A i \in 2..(Len(q) - 1) :
            /\ q[i] = "\"" => BackslashesBefore(q, i) % 2 = 1
            /\ q[i] # "\n"

\* some blank-delimited word of q is the word "or" in some casing
HasStandaloneOr(q) ==
    \E i \in 1..(Len(q) - 1) :
        /\ i = 1 \/ q[i - 1] \in {" ", "\t", "\n"}
        /\ q[i] \in {"o", "O"} /\ q[i + 1] \in {"r", "R"}
        /\ i + 1 = Len(q) \/ q[i + 2] \in {" ", "\t", "\n"}

\* the letters o and r stand side by side somewhere in q, in some casing
HasOrLetters(q) ==
    \E i \in 1..(Len(q) - 1) : q[i] \in {"o", "O"} /\ q[i + 1] \in {"r", "R"}

\* q is phrase or a, where phrase is a quoted phrase
PhraseOrWord(q) ==
    /\ Len(q) >= 7
    /\ SubSeq(q, Len(q) - 4, Len(q)) = <<" ", "o", "r", " ", "a">>
    /\ IsQuotedPhrase(SubSeq(q, 1, Len(q) - 5))
    /\ \A i \in 1..(Len(q) - 5) : q[i] # "!"

IsWordMaybeBang(t) ==
    /\ Len(t) >= 1
    /\ \A i \in 1..Len(t) : t[i] \in {"a", "b"} \/ (t[i] = "!" /\ i = Len(t) /\ i > 1)

\* C12: a token that merely ends in an exclamation mark counts as plain fulltext,
\* so two such words around an operator are both wrapped ("important! or
\* urgent!" becomes "note.content *=* important! OR note.content *=* urgent!").
C12_BangTokensAreBare ==
    (/\ QDone
     /\ Len(QSegments) = 2
     /\ \A k \in 1..2 : Len(QSegments[k]) = 1 /\ IsWordMaybeBang(QSegments[k][1])) =>
        qOutcome = Returned(Contains(QSegments[1][1]) \o <<" ", "O", "R", " ">>
                                \o Contains(QSegments[2][1]))

----------------------------------------------------------------------------
(* Claims about the handlers (checked under Spec) *)

\* what applying the request's changes or patch to the content fetched gives
DiffOutcome(call) ==
    IF "changes" \in call.req.input.has
    THEN applySearchReplace(call.existingContent, call.req.input.changes)
    ELSE applyUnifiedDiff(call.existingContent, call.req.input.patch)

\* the call has fetched the existing content for a diff-mode request
FetchedForDiff(call) ==
    /\ SchemaAccepts(call.req)
    /\ IsDiffMode(call.req)
    /\ call.pc # "start"
    /\ call.gets >= 1
    /\ call.response # Thrown("TriliumClientError", <<>>)

\* C6: when a change of the list (or the patch) fails to apply to the content
\* fetched, the call never calls client.updateNoteContent: it is rejected with that
\* error and the note keeps its content.
C6_FailedBatchNotPersisted ==
    \A c \in DOMAIN calls :
        (FetchedForDiff(calls[c]) /\ DiffOutcome(calls[c]).tag = "error") =>
            /\ calls[c].puts = <<>>
            /\ calls[c].pc = "done"
            /\ calls[c].response = DiffOutcome(calls[c])
            /\ store = calls[c].existingContent

\* the first change applied in memory (it changes the content), the second failed
C6_Witness ==
    \E c \in DOMAIN calls :
        LET call == calls[c]
            changes == call.req.input.changes
        IN  /\ FetchedForDiff(call)
            /\ Len(changes) = 2
            /\ changes[1].old_string # <<>>
            /\ ApplyChange(call.existingContent, changes[1]).tag = "ok"
            /\ ApplyChange(call.existingContent, changes[1]).value # call.existingContent
            /\ call.response.tag = "error"
            /\ call.response.kind \in {"NotFound", "Ambiguous"}
            /\ call.puts = <<>>
            /\ store = call.existingContent

----------------------------------------------------------------------------
(* Claims about resolveContent (checked under SpecResolve) *)

RDone == resolveCall.outcome # Pending

\* what the applier of a diff-mode input makes of the existing content
ApplierOutput(existingContent, input) ==
    IF "changes" \in input.has
    THEN applySearchReplace(existingContent, input.changes)
    ELSE applyUnifiedDiff(existingContent, input.patch)

\* C13: resolveContent dispatches on the populated field: `content` is returned
\* as given whatever the existing content is, `changes` gives
\* applySearchReplace(existing, changes), `patch` gives applyUnifiedDiff(existing,
\* patch), no field gives the error "No content mode specified", and an applier's
\* error is the call's error, unchanged.
C13_ResolveDispatches ==
    RDone =>
        LET e == resolveCall.existingContent
            i == resolveCall.input
            plain == resolveCall.convertFn = "none"
            out == resolveCall.outcome
        IN  /\ (i.has = {"content"} /\ plain) => out = Returned(i.content)
            /\ (i.has = {"changes"} /\ plain) => out = applySearchReplace(e, i.changes)
            /\ (i.has = {"patch"} /\ plain) => out = applyUnifiedDiff(e, i.patch)
            /\ i.has = {} => out = Thrown("NoModeSpecified", <<>>)
            /\ (i.has = {"changes"} /\ applySearchReplace(e, i.changes).tag = "error") =>
                    out = applySearchReplace(e, i.changes)
            /\ (i.has = {"patch"} /\ applyUnifiedDiff(e, i.patch).tag = "error") =>
                    out = applyUnifiedDiff(e, i.patch)

\* no field is populated, the existing content is not empty, and the call threw
C13_Witness ==
    /\ RDone
    /\ resolveCall.input.has = {}
    /\ resolveCall.existingContent # <<>>
    /\ resolveCall.outcome.tag = "error"

\* C14 as stated: in edits or patch mode convertFn is never invoked, so the call
\* gives exactly the applier's output even when a convertFn is supplied.
C14_ConvertOnlyInFullMode ==
    (RDone /\ resolveCall.input.has \in {{"changes"}, {"patch"}}) =>
        resolveCall.outcome = ApplierOutput(resolveCall.existingContent, resolveCall.input)

\* C14, amended: in edits or patch mode the call gives exactly the applier's
\* output when no convertFn is supplied; a supplied convertFn is applied to the
\* applier's output as in full-replacement mode, and an applier's error is
\* thrown as it is.
C14_ConvertAfterAnyMode ==
    (RDone /\ resolveCall.input.has \in {{"changes"}, {"patch"}}) =>
        LET applied == ApplierOutput(resolveCall.existingContent, resolveCall.input)
        IN  IF applied.tag = "error" \/ resolveCall.convertFn = "none"
            THEN resolveCall.outcome = applied
            ELSE resolveCall.outcome =
                    Returned(convertContent(applied.value, resolveCall.convertFn))

\* edits mode with a convertFn: the applier changed the content and the call
\* returned something else than the applier's output
C14_Witness ==
    /\ RDone
    /\ resolveCall.input.has = {"changes"}
    /\ resolveCall.convertFn = "markdown"
    /\ applySearchReplace(resolveCall.existingContent, resolveCall.input.changes).tag = "ok"
    /\ applySearchReplace(resolveCall.existingContent, resolveCall.input.changes).value
            # resolveCall.existingContent
    /\ resolveCall.outcome.tag = "ok"
    /\ resolveCall.outcome
            # applySearchReplace(resolveCall.existingContent, resolveCall.input.changes)

----------------------------------------------------------------------------
(* Claims about verifySearchReplaceResults (checked under SpecVerify) *)

VDone == verifyCall.outcome # Pending

\* the changes whose non-empty new_string is nowhere in the persisted content
MissingChanges ==
    {k \in 1..Len(verifyCall.changes) :
        /\ Len(verifyCall.changes[k].new_string) > 0
        /\ Occurrences(verifyCall.persistedContent, verifyCall.changes[k].new_string) = {}}

\* C15: verifySearchReplaceResults returns normally exactly when every change
\* with a non-empty new_string has it as a literal substring of the persisted
\* content; changes with an empty new_string are never checked and an empty
\* list passes.
C15_PassesIffReplacementsPresent ==
    VDone => (verifyCall.outcome.tag = "ok" <=> MissingChanges = {})

\* the first replacement is in the persisted content and the second is not
C15_Witness ==
    /\ VDone
    /\ Len(verifyCall.changes) = 2
    /\ MissingChanges = {2}
    /\ verifyCall.changes[1].new_string # <<>>
    /\ verifyCall.outcome.tag = "error"

\* what the error shows of a missing new_string
ShownOf(new_string) ==
    IF Len(new_string) <= 200 THEN new_string
    ELSE SubSeq(new_string, 1, 200) \o <<".", ".", ".">>

\* C16: a failed verification reports all missing replacements in one error:
\* exactly the missing ones, each shown whole up to 200 characters and as its
\* first 200 characters followed by "..." beyond that.
C16_ReportsAllMissingTruncated ==
    (VDone /\ MissingChanges # {}) =>
        /\ verifyCall.outcome.tag = "error"
        /\ verifyCall.outcome.kind = "ReadbackMismatch"
        /\ Len(verifyCall.outcome.shown) = Cardinality(MissingChanges)
        /\ {verifyCall.outcome.shown[j] : j \in 1..Len(verifyCall.outcome.shown)}
                = {ShownOf(verifyCall.changes[k].new_string) : k \in MissingChanges}

\* a missing replacement of more than 200 characters beside a present one
C16_Witness ==
    /\ VDone
    /\ Len(verifyCall.changes) = 2
    /\ \E k \in MissingChanges : Len(verifyCall.changes[k].new_string) > 200
    /\ \E k \in 1..2 : k \notin MissingChanges /\ verifyCall.changes[k].new_string # <<>>
    /\ verifyCall.outcome.tag = "error"

----------------------------------------------------------------------------
(* Claims about applyUnifiedDiff (checked under SpecPatch) *)

PDone == patchCall.outcome # Pending

\* the context and removed lines of a hunk, and its context and added lines
OldBlock(hunk) ==
    LET old == {j \in 1..Len(hunk.lines) : hunk.lines[j].op # "+"}
        nth(k) == CHOOSE j \in old : Cardinality({r \in old : r < j}) = k - 1
    IN  [k \in 1..Cardinality(old) |-> hunk.lines[nth(k)].text]

NewBlock(hunk) ==
    LET new == {j \in 1..Len(hunk.lines) : hunk.lines[j].op # "-"}
        nth(k) == CHOOSE j \in new : Cardinality({r \in new : r < j}) = k - 1
    IN  [k \in 1..Cardinality(new) |-> hunk.lines[nth(k)].text]

\* `block` stands somewhere in `lines`, line after line
OccursIn(lines, block) ==
    \E p \in 0..(Len(lines) - Len(block)) : SubSeq(lines, p + 1, p + Len(block)) = block

RECURSIVE LineDelta(_)
\* what a patch adds to the number of lines
LineDelta(patch) ==
    IF patch = <<>> THEN 0
    ELSE Len(NewBlock(Head(patch))) - Len(OldBlock(Head(patch))) + LineDelta(Tail(patch))

\* C17: applyUnifiedDiff returns the fully patched content or throws the error
\* "patch could not be applied": a returned content has every hunk applied, each
\* where its context and removed lines match line for line, and the call throws
\* whenever the context of some hunk matches nowhere.
C17_PatchedOrFailed ==
    PDone =>
        LET lines == SplitLines(patchCall.content)
            patch == patchCall.patch
            out == patchCall.outcome
        IN  /\ out.tag = "error" => out = Thrown("PatchFailed", <<>>)
            /\ out.tag = "ok" =>
                    /\ IF Len(lines) + LineDelta(patch) = 0 THEN out.value = <<>>
                       ELSE Len(SplitLines(out.value)) = Len(lines) + LineDelta(patch)
                    /\ \A h \in 1..Len(patch) : OccursIn(lines, OldBlock(patch[h]))
                    /\ \A h \in 1..Len(patch) :
                            OccursIn(SplitLines(out.value), NewBlock(patch[h]))
            /\ (\E h \in 1..Len(patch) : ~OccursIn(lines, OldBlock(patch[h]))) =>
                    out = Thrown("PatchFailed", <<>>)

\* two hunks: the first matches at its line, the second matches nowhere, and
\* the call threw
C17_Witness ==
    /\ PDone
    /\ Len(patchCall.patch) = 2
    /\ LET lines == SplitLines(patchCall.content)
           first == patchCall.patch[1]
       IN  /\ first.oldStart + Len(OldBlock(first)) - 1 <= Len(lines)
           /\ SubSeq(lines, first.oldStart, first.oldStart + Len(OldBlock(first)) - 1)
                    = OldBlock(first)
           /\ NewBlock(first) # OldBlock(first)
           /\ ~OccursIn(lines, OldBlock(patchCall.patch[2]))
    /\ patchCall.outcome.tag = "error"

\* the patch is a diff of the content: each hunk's context and removed lines are
\* the content's lines at the hunk's oldStart, and the hunks follow each other
GeneratedAgainst(content, patch) ==
    LET lines == SplitLines(content)
    IN  /\ \A h \in 1..Len(patch) :
                /\ patch[h].oldStart + Len(OldBlock(patch[h])) - 1 <= Len(lines)
                /\ SubSeq(lines, patch[h].oldStart,
                          patch[h].oldStart + Len(OldBlock(patch[h])) - 1)
                        = OldBlock(patch[h])
        /\ \A h \in 1..(Len(patch) - 1) :
                patch[h + 1].oldStart >= patch[h].oldStart + Len(OldBlock(patch[h]))

\* the patch is a diff of the content and the first call changed the content
PatchedOnce ==
    /\ PDone
    /\ GeneratedAgainst(patchCall.content, patchCall.patch)
    /\ patchCall.outcome.tag = "ok"
    /\ patchCall.outcome.value # patchCall.content

\* C18 as stated: a patch generated against a content and changing it applies
\* to the content, and applying it again to the result always throws the error
\* "patch could not be applied".
C18_ReapplicationFails ==
    /\ (PDone /\ GeneratedAgainst(patchCall.content, patchCall.patch)) =>
            patchCall.outcome.tag = "ok"
    /\ (PatchedOnce /\ patchCall.again # Pending) =>
            patchCall.again = Thrown("PatchFailed", <<>>)

\* C18, amended: a patch generated against a content applies to it; applied
\* again to the changed result it throws "patch could not be applied" whenever
\* the context and removed lines of some hunk stand nowhere in the result, and a
\* one-hunk patch whose context and removed lines still stand there is applied
\* a second time and changes the content again.
C18_ReapplicationFailsWhenContextGone ==
    /\ (PDone /\ GeneratedAgainst(patchCall.content, patchCall.patch)) =>
            patchCall.outcome.tag = "ok"
    /\ (PatchedOnce /\ patchCall.again # Pending) =>
            LET patched == SplitLines(patchCall.outcome.value)
                patch == patchCall.patch
            IN  /\ (\E h \in 1..Len(patch) : ~OccursIn(patched, OldBlock(patch[h]))) =>
                        patchCall.again = Thrown("PatchFailed", <<>>)
                /\ (Len(patch) = 1 /\ OccursIn(patched, OldBlock(patch[1]))) =>
                        /\ patchCall.again.tag = "ok"
                        /\ patchCall.again.value # patchCall.outcome.value

\* a line replaced by another: the second call finds the replaced line gone
C18_Witness ==
    /\ PatchedOnce
    /\ Len(patchCall.patch) = 1
    /\ \E j \in 1..Len(patchCall.patch[1].lines) : patchCall.patch[1].lines[j].op = "-"
    /\ \E j \in 1..Len(patchCall.patch[1].lines) : patchCall.patch[1].lines[j].op = "+"
    /\ ~OccursIn(SplitLines(patchCall.outcome.value), OldBlock(patchCall.patch[1]))
    /\ patchCall.again = Thrown("PatchFailed", <<>>)

----------------------------------------------------------------------------
(* Claims about the request boundary of the handlers (checked under Spec) *)

\* none or several of content / changes / patch are given, or markdown is asked
\* for together with changes or patch
BreaksExactlyOneMode(req) ==
    \/ req.input.has \notin {{"content"}, {"changes"}, {"patch"}}
    \/ req.format = "markdown" /\ ("changes" \in req.input.has \/ "patch" \in req.input.has)

\* C19: update_note_content and append_note_content reject a request with none
\* or more than one of content / changes / patch, and one with format "markdown"
\* and changes or patch, before any client call: the note is neither fetched
\* nor written and the call ends with the validation error.
C19_RejectedBeforeAnyClientCall ==
    \A c \in DOMAIN calls :
        BreaksExactlyOneMode(calls[c].req) =>
            /\ calls[c].gets = 0
            /\ calls[c].puts = <<>>
            /\ calls[c].pc \in {"start", "done"}
            /\ calls[c].pc = "done" => calls[c].response = Thrown("ZodError", <<>>)

\* an append request with changes and patch together has been rejected
C19_Witness ==
    \E c \in DOMAIN calls :
        /\ calls[c].req.tool = "append_note_content"
        /\ calls[c].req.input.has = {"changes", "patch"}
        /\ calls[c].req.format # "markdown"
        /\ calls[c].pc = "done"
        /\ calls[c].response.tag = "error"
        /\ calls[c].gets = 0

----------------------------------------------------------------------------
(* Claims about the search string in error messages (checked under SpecEcho) *)

\* what an error message shows of the search string S
ShownSearch(S) ==
    IF Len(S) <= 100 THEN S ELSE SubSeq(S, 1, 100) \o <<".", ".", ".">>

\* C20: the "could not find" and "ambiguous" errors echo the search string
\* verbatim when it has at most 100 characters, and as exactly its first 100
\* characters followed by "..." when it is longer, never more of it.
C20_SearchEchoTruncated ==
    \A k \in 1..Len(srChanges) :
        LET before == applySearchReplace(srContent, Prefix(srChanges, k - 1))
            S == srChanges[k].old_string
        IN  (SrDone /\ before.tag = "ok" /\ S # <<>>
                /\ Cardinality(Occurrences(before.value, S)) # 1) =>
                /\ srOutcome.tag = "error"
                /\ srOutcome.kind =
                        IF Occurrences(before.value, S) = {} THEN "NotFound" ELSE "Ambiguous"
                /\ srOutcome.shown = ShownSearch(S)
                /\ Len(srOutcome.shown) <= 103

\* an old_string of 101 characters that stands twice in the content
C20_Witness ==
    /\ SrDone
    /\ Len(srChanges) = 1
    /\ Len(srChanges[1].old_string) = 101
    /\ Cardinality(Occurrences(srContent, srChanges[1].old_string)) = 2
    /\ srOutcome.tag = "error"
    /\ Len(srOutcome.shown) = 103

----------------------------------------------------------------------------
(* Further claims about preprocessSearchQuery (checked under SpecQuery) *)

\* C21: preprocessSearchQuery is total: on the empty query, blanks only, quotes
\* never closed, operators only and operator characters alike, every match of
\* the tokenizer's loop takes at least one character and ends inside the query,
\* so the loop ends, and the call returns a string and throws nothing.
C21_Total ==
    /\ \A i \in 0..(Len(query) - 1) :
            query[i + 1] \notin {" ", "\t", "\n"} =>
                MatchEnd(query, i) > i /\ MatchEnd(query, i) <= Len(query)
    /\ QDone =>
            /\ qOutcome.tag = "ok"
            /\ DOMAIN qOutcome.value = 1..Len(qOutcome.value)
            /\ \A j \in 1..Len(qOutcome.value) : qOutcome.value[j] \in STRING

\* a query with a quote that is never closed, an operator and an exclamation
\* mark has been answered
C21_Witness ==
    /\ QDone
    /\ Cardinality({i \in 1..Len(query) : query[i] = "\""}) = 1
    /\ HasStandaloneOr(query)
    /\ \E i \in 1..Len(query) : query[i] = "!"

\* the tokens without the OR words at either end and with every run of OR
\* words reduced to its first
Squeezed(tokens) ==
    LET n == Len(tokens)
        keep == {i \in 1..n :
                    \/ ~IsOrWord(tokens[i])
                    \/ /\ i > 1 /\ ~IsOrWord(tokens[i - 1])
                       /\ \E j \in (i + 1)..n : ~IsOrWord(tokens[j])}
        nth(k) == CHOOSE i \in keep : Cardinality({r \in keep : r < i}) = k - 1
    IN  [k \in 1..Cardinality(keep) |-> tokens[nth(k)]]

\* C25: splitting at OR never produces an empty segment. A query whose OR
\* words leave at most one run of other tokens ("or meeting", "meeting or",
\* "or", "or or") is returned unchanged, and a query that is rewritten is
\* rewritten exactly like the query without its leading, trailing and repeated
\* OR words ("a or or b" like "a or b"), so no contains-expression is empty
\* and no " OR " is doubled.
C25_NoEmptySegment ==
    QDone =>
        LET tokens == tokenize(query)
            segments == SplitSegments(tokens, <<>>, <<>>)
            squeezed == Separated(Squeezed(tokens), <<" ">>)
        IN  /\ \A k \in 1..Len(segments) : segments[k] # <<>>
            /\ Len(segments) = Len(QSegments)
            /\ Len(QSegments) <= 1 => qOutcome = Returned(query)
            /\ (qOutcome.value # query /\ tokenize(squeezed) = Squeezed(tokens)) =>
                    qOutcome.value = preprocessSearchQuery(squeezed)
            /\ query = <<"a", " ", "o", "r", " ", " ", "O", "R", " ", "b">> =>
                    qOutcome.value = Contains(<<"a">>) \o <<" ", "O", "R", " ">>
                                        \o Contains(<<"b">>)

\* a rewritten query with two OR words side by side
C25_Witness ==
    /\ QDone
    /\ qOutcome.value # query
    /\ \E i \in 1..(Len(tokenize(query)) - 1) :
            IsOrWord(tokenize(query)[i]) /\ IsOrWord(tokenize(query)[i + 1])
    /\ tokenize(Separated(Squeezed(tokenize(query)), <<" ">>)) = Squeezed(tokenize(query))

\* a query of OR words and one other token at its end, returned as it is
C25_WitnessUnchanged ==
    /\ QDone
    /\ Len(QSegments) = 1
    /\ Len(tokenize(query)) >= 3
    /\ IsOrWord(tokenize(query)[1]) /\ IsOrWord(tokenize(query)[2])
    /\ qOutcome = Returned(query)

\* C30: preprocessSearchQuery is idempotent: for every query Q, preprocessing
\* the result of preprocessing Q gives that result again.
C30_Idempotent ==
    QDone => preprocessSearchQuery(qOutcome.value) = qOutcome.value

----------------------------------------------------------------------------
(* A further claim about resolveContent (checked under SpecResolve) *)

\* C29: resolveContent called with more than one field populated does not fail
\* for that: `content` wins over `changes`, which wins over `patch`, and the
\* other fields are ignored, whether they would apply or not.
C29_PrecedenceOfModes ==
    (RDone /\ Cardinality(resolveCall.input.has) >= 2) =>
        LET e == resolveCall.existingContent
            i == resolveCall.input
            out == resolveCall.outcome
            converted(s) == IF resolveCall.convertFn = "markdown"
                            THEN MarkedParse(s) ELSE s
            edited == applySearchReplace(e, i.changes)
        IN  /\ "content" \in i.has => out = Returned(converted(i.content))
            /\ i.has = {"changes", "patch"} =>
                    out = IF edited.tag = "ok"
                          THEN Returned(converted(edited.value))
                          ELSE edited

\* all three fields are populated, neither the edits nor the patch apply to the
\* existing content, and the call returned the content given
C29_Witness ==
    /\ RDone
    /\ resolveCall.input.has = {"content", "changes", "patch"}
    /\ applySearchReplace(resolveCall.existingContent,
                          resolveCall.input.changes).tag = "error"
    /\ applyUnifiedDiff(resolveCall.existingContent,
                        resolveCall.input.patch).tag = "error"
    /\ resolveCall.outcome = Returned(resolveCall.input.content)
    /\ resolveCall.input.content # resolveCall.existingContent

\* the edits and a patch that does not apply are populated, and the call
\* returned the edited content
C29_WitnessChangesOverPatch ==
    /\ RDone
    /\ resolveCall.input.has = {"changes", "patch"}
    /\ applyUnifiedDiff(resolveCall.existingContent,
                        resolveCall.input.patch).tag = "error"
    /\ resolveCall.outcome.tag = "ok"
    /\ resolveCall.outcome.value # resolveCall.existingContent

----------------------------------------------------------------------------
(* Claims about the handlers' remote operations (checked under Spec) *)

\* the request is in edit-list mode: changes alone, without markdown
IsEditList(req) == req.input.has = {"changes"} /\ req.format # "markdown"

\* the request is in full-replacement or patch mode
IsFullOrPatch(req) ==
    \/ req.input.has = {"content"}
    \/ req.input.has = {"patch"} /\ req.format # "markdown"

C26_FullReplacementWritesOnly ==
    \A c \in DOMAIN calls :
        LET call == calls[c]
            req == call.req
            supplied == IF req.format = "markdown"
                        THEN MarkedParse(req.input.content)
                        ELSE req.input.content
        IN  (req.tool = "update_note_content" /\ req.input.has = {"content"}) =>
                /\ call.gets = 0
                /\ call.pc \in {"start", "put", "done"}
                /\ call.pc # "done" => call.puts = <<>>
                /\ call.pc = "done" => call.puts = <<supplied>>
                /\ call.response.tag = "ok" => store = supplied

\* a markdown replacement has been written without any fetch
C26_Witness ==
    \E c \in DOMAIN calls :
        /\ calls[c].req.tool = "update_note_content"
        /\ calls[c].req.input.has = {"content"}
        /\ calls[c].req.format = "markdown"
        /\ calls[c].req.input.content # <<>>
        /\ calls[c].response.tag = "ok"
        /\ calls[c].gets = 0
        /\ Len(calls[c].puts) = 1

\* C27: with a single writer and a store that returns what was written, every
\* edit-list call (update or append) whose edits all apply completes with
\* success, chains of dependent edits and edits whose replacement a later edit
\* removes included; ReadbackMismatch is raised only when the store altered the
\* content.
C27_EditListSucceeds ==
    \A c \in DOMAIN calls :
        (/\ IsEditList(calls[c].req)
         /\ calls[c].pc = "done"
         /\ calls[c].gets = 2
         /\ store = calls[c].finalContent) =>
            (calls[c].response.tag = "error" =>
                calls[c].response.kind = "TriliumClientError")

----------------------------------------------------------------------------
(* Claims about concurrent calls (checked under SpecRace) *)

\* the call's write reached the store
HasWritten(call) ==
    \/ call.pc = "readBack"
    \/ call.pc = "done" /\ call.gets = 2
    \/ call.response.tag = "ok"

\* C24: two concurrent edit-list update_note_content calls are not protected
\* against each other: a call that has computed its content writes it whatever
\* the note holds by then, and once a call has written, the note holds the
\* content of one of the writers alone (the last write wins); so in the
\* interleaving where both fetch the same content, A writes and reads back and
\* then B writes, both report success and the final content lacks A's
\* replacement.
C24_LastWriteWins ==
    /\ \A c \in DOMAIN calls :
            calls[c].pc = "put" =>
                ENABLED (Put(c) /\ store' = calls[c].finalContent)
    /\ (\E c \in DOMAIN calls : HasWritten(calls[c])) =>
            \E c \in DOMAIN calls :
                /\ HasWritten(calls[c])
                /\ store = calls[c].finalContent

\* the lost update: both calls fetched the same content and both reported
\* success, and the replacement of call 1 is not in the note
C24_Witness ==
    /\ \A c \in DOMAIN calls :
            /\ calls[c].pc = "done"
            /\ calls[c].response = Success("update_note_content")
            /\ calls[c].gets = 2
    /\ calls[1].existingContent = calls[2].existingContent
    /\ calls[1].req.input.changes[1].new_string # <<>>
    /\ Occurrences(store, calls[1].req.input.changes[1].new_string) = {}
    /\ store = calls[2].finalContent
    /\ calls[1].finalContent # calls[2].finalContent

====
